---- MODULE Spec2Model ----
(***************************************************************************)
(* GoodreadsAnalytics (goodreads_analytics.py): a table of book records,   *)
(* the shelf normaliser run once by the constructor, and the five query    *)
(* operations.                                                             *)
(*                                                                         *)
(* Strings are sequences of one-character strings, so that split, strip,   *)
(* lower and re.sub are computed character by character.  A cell of the    *)
(* table is a tagged value: a string, a number, a missing value (NaN) or   *)
(* an unparseable text.  A DataFrame is its set of columns and its         *)
(* sequence of rows; a row keeps its index label.  Floating-point results  *)
(* are exact rationals <<numerator, denominator>> in lowest terms.         *)
(***************************************************************************)
EXTENDS Integers, Sequences, FiniteSets, TLC

VARIABLES data_source, df, pc, ret

vars == <<data_source, df, pc, ret>>

\* ------------------------------------------------------------------ bounds
MaxRows == 2

MaxPieces == 3

MaxN == 2

\* ----------------------------------------------------------------- strings
READ == <<"r", "e", "a", "d">>

TO_READ == <<"t", "o", "-", "r", "e", "a", "d">>

\* str.lower(), on the alphabet of the model
LowerChar(c) ==
    CASE c = "R" -> "r"
      [] c = "X" -> "x"
      [] OTHER -> c

lower(s) == [i \in 1..Len(s) |-> LowerChar(s[i])]

IsSpace(c) == c = " "

IsDigit(c) == c \in {"1", "3"}

RECURSIVE lstrip(_)
lstrip(s) ==
    IF s # <<>> /\ IsSpace(Head(s)) THEN lstrip(Tail(s)) ELSE s

RECURSIVE rstrip(_)
rstrip(s) ==
    IF s # <<>> /\ IsSpace(s[Len(s)]) THEN rstrip(SubSeq(s, 1, Len(s) - 1)) ELSE s

\* str.strip()
strip(s) == rstrip(lstrip(s))

\* str.split(','): one token more than there are commas, empty tokens kept
RECURSIVE split(_)
split(s) ==
    IF \A i \in 1..Len(s) : s[i] # ","
    THEN <<s>>
    ELSE LET i == CHOOSE k \in 1..Len(s) :
                      s[k] = "," /\ \A j \in 1..(k - 1) : s[j] # ","
         IN  <<SubSeq(s, 1, i - 1)>> \o split(SubSeq(s, i + 1, Len(s)))

\* the length of the match of ' \(#\d+\)' that starts at position i, or 0
MatchLen(s, i) ==
    IF i + 2 <= Len(s) /\ s[i] = " " /\ s[i + 1] = "(" /\ s[i + 2] = "#"
    THEN LET runs == {k \in 1..(Len(s) - i - 2) :
                          \A j \in 1..k : IsDigit(s[i + 2 + j])}
         IN  IF runs = {}
             THEN 0
             ELSE LET k == CHOOSE m \in runs : \A o \in runs : o <= m
                  IN  IF i + 3 + k <= Len(s) /\ s[i + 3 + k] = ")"
                      THEN k + 4
                      ELSE 0
    ELSE 0

\* re.sub(r' \(#\d+\)', '', s): every non-overlapping match, left to right
RECURSIVE re_sub_from(_, _)
re_sub_from(s, i) ==
    IF i > Len(s)
    THEN <<>>
    ELSE LET m == MatchLen(s, i)
         IN  IF m > 0
             THEN re_sub_from(s, i + m)
             ELSE <<s[i]>> \o re_sub_from(s, i + 1)

re_sub(s) == re_sub_from(s, 1)

\* ------------------------------------------------------------------- cells
NaN == [kind |-> "nan", s |-> <<>>, v |-> 0]

Str(s) == [kind |-> "str", s |-> s, v |-> 0]

Num(n) == [kind |-> "num", s |-> <<>>, v |-> n]

\* a text that is no number
Bad == Str(<<"x">>)

\* Series.fillna('')
fillna(x) == IF x.kind = "nan" THEN <<>> ELSE x.s

\* pd.to_numeric(..., errors='coerce') on one cell
to_numeric(x) == IF x.kind = "num" THEN x ELSE NaN

\* the lambda of line 29
clean_shelves(x) ==
    IF x # <<>> THEN [i \in 1..Len(split(x)) |-> strip(split(x)[i])] ELSE <<>>

\* the lambda of line 35
clean_positions(x) ==
    IF x # <<>> THEN [i \in 1..Len(split(x)) |-> re_sub(strip(split(x)[i]))] ELSE <<>>

\* ------------------------------------------------------------------ frames
RawColumns ==
    {"Title", "Author", "Number of Pages", "My Rating",
     "Bookshelves", "Bookshelves with positions"}

\* GoodreadsAnalytics._clean_bookshelves
_clean_bookshelves(frame) ==
    LET c1 == IF "Bookshelves" \in frame.columns
              THEN {"bookshelves_list"} ELSE {}
        c2 == IF "Bookshelves with positions" \in frame.columns
              THEN {"bookshelves_positions_list"} ELSE {}
    IN  [columns |-> frame.columns \cup c1 \cup c2,
         view |-> FALSE,
         rows |-> [i \in 1..Len(frame.rows) |->
             [frame.rows[i] EXCEPT
                 !.bookshelves_list =
                     IF c1 # {} THEN clean_shelves(fillna(frame.rows[i].Bookshelves))
                     ELSE @,
                 !.bookshelves_positions_list =
                     IF c2 # {} THEN clean_positions(fillna(frame.rows[i].Positions))
                     ELSE @]]]

\* --------------------------------------------------------------- rationals
Abs(n) == IF n < 0 THEN -n ELSE n

Min(a, b) == IF a <= b THEN a ELSE b

Max(a, b) == IF a >= b THEN a ELSE b

RECURSIVE GCD(_, _)
GCD(a, b) == IF b = 0 THEN a ELSE GCD(b, a % b)

\* the quotient n / d (d > 0), in lowest terms
Rat(n, d) == LET g == GCD(Abs(n), d) IN <<n \div g, d \div g>>

\* the product q * k
Mul(q, k) == Rat(q[1] * k, q[2])

Zero == <<0, 1>>

\* --------------------------------------------------------------- selection
\* the comparison without s.lower(): the stored name as it is
contains_as_stored(x, name) == \E i \in 1..Len(x) : name = x[i]

\* any(name == s.lower() for s in x), name already lower-cased
contains(x, name) == \E i \in 1..Len(x) : name = lower(x[i])

\* the selection as a view of the frame instead of a copy
getitem_mask_view(frame, name) ==
    IF Len(frame.rows) = 0
    THEN [columns |-> {}, view |-> FALSE, rows |-> <<>>]
    ELSE [columns |-> frame.columns,
          view |-> TRUE,
          rows |-> SelectSeq(frame.rows,
                             LAMBDA r : contains(r.bookshelves_list, name))]

\* frame[frame['bookshelves_list'].apply(...)]: a boolean mask selects the rows
\* it marks, into a copy.  Series.apply on an empty Series gives an empty Series
\* of the column's own dtype (object), which is no boolean indexer: the key is
\* then a list of no column labels, and the result has no columns.
getitem_mask(frame, name) ==
    IF Len(frame.rows) = 0
    THEN [columns |-> {}, view |-> FALSE, rows |-> <<>>]
    ELSE [columns |-> frame.columns,
          view |-> FALSE,
          rows |-> SelectSeq(frame.rows,
                             LAMBDA r : contains(r.bookshelves_list, name))]

KeyError(key) == [status |-> "KeyError", key |-> key]

\* ------------------------------------------------- shelf_overlap_percentage
shelf_overlap_percentage(frame, shelf1, shelf2) ==
    IF "bookshelves_list" \notin frame.columns
    THEN KeyError("bookshelves_list")
    ELSE LET shelf1_books == getitem_mask(frame, lower(shelf1))
         IN  IF Len(shelf1_books.rows) = 0
             THEN [status |-> "ok", value |-> Zero]
             ELSE LET shelf1_and_shelf2_books ==
                          getitem_mask(shelf1_books, lower(shelf2))
                  IN  [status |-> "ok",
                       value |-> Mul(Rat(Len(shelf1_and_shelf2_books.rows),
                                         Len(shelf1_books.rows)), 100)]

\* --------------------------------------------------- average_pages_on_shelf
RECURSIVE Sum(_)
Sum(s) == IF s = <<>> THEN 0 ELSE Head(s) + Sum(Tail(s))

RECURSIVE Insert(_, _)
Insert(x, s) ==
    IF s = <<>> THEN <<x>>
    ELSE IF x <= Head(s) THEN <<x>> \o s
    ELSE <<Head(s)>> \o Insert(x, Tail(s))

RECURSIVE SortAsc(_)
SortAsc(s) == IF s = <<>> THEN <<>> ELSE Insert(Head(s), SortAsc(Tail(s)))

\* Series.median(): the middle value, or the mean of the two middle values
median(s) ==
    LET o == SortAsc(s)
        k == Len(o)
    IN  IF k % 2 = 1
        THEN Rat(o[(k + 1) \div 2], 1)
        ELSE Rat(o[k \div 2] + o[k \div 2 + 1], 2)

\* pd.to_numeric(frame['Number of Pages'], errors='coerce').dropna()
numeric_pages(frame) ==
    LET col == [i \in 1..Len(frame.rows) |-> to_numeric(frame.rows[i].Pages)]
        kept == SelectSeq(col, LAMBDA x : x.kind = "num")
    IN  [i \in 1..Len(kept) |-> kept[i].v]

page_stats(shelf_books) ==
    IF Len(shelf_books.rows) = 0
    THEN [status |-> "ok", average |-> Zero, min_pages |-> 0, max_pages |-> 0,
          median_pages |-> Zero, total_books |-> 0, total_pages |-> 0]
    ELSE IF "Number of Pages" \notin shelf_books.columns
    THEN KeyError("Number of Pages")
    ELSE LET pages == numeric_pages(shelf_books)
         IN  IF Len(pages) = 0
             THEN [status |-> "ok", average |-> Zero, min_pages |-> 0,
                   max_pages |-> 0, median_pages |-> Zero,
                   total_books |-> Len(shelf_books.rows), total_pages |-> 0]
             ELSE [status |-> "ok",
                   average |-> Rat(Sum(pages), Len(pages)),
                   min_pages |-> SortAsc(pages)[1],
                   max_pages |-> SortAsc(pages)[Len(pages)],
                   median_pages |-> median(pages),
                   total_books |-> Len(shelf_books.rows),
                   total_pages |-> Sum(pages)]

average_pages_on_shelf(frame, shelf, only_read) ==
    IF "bookshelves_list" \notin frame.columns
    THEN KeyError("bookshelves_list")
    ELSE LET shelf_books == getitem_mask(frame, lower(shelf))
         IN  IF only_read
             THEN IF "bookshelves_list" \notin shelf_books.columns
                  THEN KeyError("bookshelves_list")
                  ELSE page_stats(getitem_mask(shelf_books, READ))
             ELSE page_stats(shelf_books)

\* ---------------------------------------------------------- get_shelf_books
get_shelf_books(frame, shelf) ==
    IF "bookshelves_list" \notin frame.columns
    THEN KeyError("bookshelves_list")
    ELSE [status |-> "ok", frame |-> getitem_mask(frame, lower(shelf))]

\* -------------------------------------------------- top_rated_books_on_shelf
\* one row too many
head_one_more(s, n) ==
    IF n >= 0
    THEN SubSeq(s, 1, Min(n + 1, Len(s)))
    ELSE SubSeq(s, 1, Max(0, Len(s) + n))

\* DataFrame.head(n): the first n rows, or all but the last -n rows when n < 0
head(s, n) ==
    IF n >= 0
    THEN SubSeq(s, 1, Min(n, Len(s)))
    ELSE SubSeq(s, 1, Max(0, Len(s) + n))

\* the sort without ascending=False: ratings ascend
sort_values_ascending(rows) ==
    LET rated == SelectSeq(rows, LAMBDA r : r.Rating.kind = "num")
        nans == SelectSeq(rows, LAMBDA r : r.Rating.kind # "num")
        k == Len(rated)
        orders == {p \in [1..k -> 1..k] :
                      /\ \A i, j \in 1..k : i # j => p[i] # p[j]
                      /\ \A i \in 1..(k - 1) :
                             rated[p[i]].Rating.v <= rated[p[i + 1]].Rating.v}
    IN  {[i \in 1..k |-> rated[p[i]]] \o nans : p \in orders}

\* DataFrame.sort_values(by='My Rating', ascending=False), as a set of the orders
\* it can produce: the default kind='quicksort' is not a stable sort, so rows of
\* equal rating come out in an order the build decides; the NaN rows are
\* appended after the sorted ones (na_position='last'), in their table order.
sort_values(rows) ==
    LET rated == SelectSeq(rows, LAMBDA r : r.Rating.kind = "num")
        nans == SelectSeq(rows, LAMBDA r : r.Rating.kind # "num")
        k == Len(rated)
        orders == {p \in [1..k -> 1..k] :
                      /\ \A i, j \in 1..k : i # j => p[i] # p[j]
                      /\ \A i \in 1..(k - 1) :
                             rated[p[i]].Rating.v >= rated[p[i + 1]].Rating.v}
    IN  {[i \in 1..k |-> rated[p[i]]] \o nans : p \in orders}

\* top_books[['Title', 'Author', 'My Rating']]: a row's title and author go with
\* its index label
project(rows) ==
    [i \in 1..Len(rows) |-> [index |-> rows[i].index, Rating |-> rows[i].Rating]]

\* the set of results one call can return
top_rated_books_on_shelf(frame, shelf, n) ==
    LET got == get_shelf_books(frame, shelf)
    IN  IF got.status # "ok"
        THEN {got}
        ELSE IF "My Rating" \notin got.frame.columns
        THEN {KeyError("My Rating")}
        ELSE LET shelf_books ==
                     [i \in 1..Len(got.frame.rows) |->
                         [got.frame.rows[i] EXCEPT !.Rating = to_numeric(@)]]
             IN  {[status |-> "ok", rows |-> project(head(top_books, n))] :
                      top_books \in sort_values(shelf_books)}

\* line 152, shelf_books['My Rating'] = ...: the assignment is made to the
\* selection, and reaches the table only if the selection is a view of it
after_setitem(frame, shelf) ==
    LET got == get_shelf_books(frame, shelf)
    IN  IF got.status = "ok" /\ "My Rating" \in got.frame.columns /\ got.frame.view
        THEN [columns |-> frame.columns,
              view |-> frame.view,
              rows |-> [i \in 1..Len(frame.rows) |->
                  IF \E j \in 1..Len(got.frame.rows) :
                         got.frame.rows[j].index = frame.rows[i].index
                  THEN [frame.rows[i] EXCEPT !.Rating = to_numeric(@)]
                  ELSE frame.rows[i]]]
        ELSE frame

\* ------------------------------------------------------------ reading_stats
reading_stats(frame) ==
    IF "bookshelves_list" \notin frame.columns
    THEN KeyError("bookshelves_list")
    ELSE LET read_books == getitem_mask(frame, READ)
             to_read_books == getitem_mask(frame, TO_READ)
         IN  IF "My Rating" \notin read_books.columns
             THEN KeyError("My Rating")
             ELSE LET my_ratings == [i \in 1..Len(read_books.rows) |->
                                        to_numeric(read_books.rows[i].Rating)]
                      rated == SelectSeq(my_ratings,
                                         LAMBDA x : x.kind = "num" /\ x.v > 0)
                      vals == [i \in 1..Len(rated) |-> rated[i].v]
                  IN  [status |-> "ok",
                       total_books |-> Len(frame.rows),
                       books_read |-> Len(read_books.rows),
                       books_to_read |-> Len(to_read_books.rows),
                       avg_rating |->
                           IF Len(vals) = 0
                           THEN [nan |-> TRUE, q |-> Zero]
                           ELSE [nan |-> FALSE, q |-> Rat(Sum(vals), Len(vals))],
                       rating_distribution |->
                           [v \in {vals[i] : i \in 1..Len(vals)} |->
                               Cardinality({i \in 1..Len(vals) : vals[i] = v})],
                       percent_read |->
                           IF Len(frame.rows) > 0
                           THEN Mul(Rat(Len(read_books.rows), Len(frame.rows)), 100)
                           ELSE Zero]

\* ------------------------------------------------------------------ inputs
\* the shelf names the callers ask for: "read", "X" and ""
ShelfArgs == {READ, <<"X">>, <<>>}

Row(i, shelves, positions, pages, rating) ==
    [index |-> i, Bookshelves |-> shelves, Positions |-> positions,
     Pages |-> pages, Rating |-> rating,
     bookshelves_list |-> <<>>, bookshelves_positions_list |-> <<>>]

\* the tables of at most MaxRows rows with cells from B, P and R
Tables(columns, B, P, R) ==
    UNION {{[columns |-> columns,
             view |-> FALSE,
             rows |-> [i \in 1..k |-> Row(i, f[i][1], f[i][1], f[i][2], f[i][3])]] :
                f \in [1..k -> B \X P \X R]} : k \in 0..MaxRows}

\* "Read, x", "x", "to-read,X", "read", "xx"
ReadX == Str(<<"R", "e", "a", "d", ",", " ", "x">>)

OnlyX == Str(<<"x">>)

ToReadX == Str(TO_READ \o <<",", "X">>)

OnlyRead == Str(READ)

OnlyXX == Str(<<"x", "x">>)

Start(tables) ==
    /\ data_source \in tables
    /\ df = [columns |-> {}, view |-> FALSE, rows |-> <<>>]
    /\ pc = "new"
    /\ ret = [op |-> "none"]

\* tables that differ in their shelves, with and without the Bookshelves column
Init ==
    Start(Tables(RawColumns, {NaN, ReadX, OnlyX, ToReadX, OnlyRead, OnlyXX},
                 {Num(100)}, {Num(4)})
          \cup Tables(RawColumns \ {"Bookshelves"}, {NaN}, {Num(100)}, {Num(4)}))

\* tables that differ in their page counts
InitPages ==
    Start(Tables(RawColumns, {NaN, ReadX, OnlyX},
                 {NaN, Bad, Num(100), Num(301)}, {Num(4)}))

\* tables that differ in their ratings
InitRatings ==
    Start(Tables(RawColumns, {ReadX, OnlyX}, {Num(100)},
                 {NaN, Bad, Num(0), Num(4), Num(5)}))

\* the pieces raw shelf strings are put together from
Pieces ==
    {<<"a">>, <<"R">>, <<" ">>, <<",">>, <<" ", "(", "#", "1", ")">>,
     <<" ", "(", "#">>, <<"3", ")">>}

RECURSIVE Strings(_)
Strings(k) ==
    IF k = 0 THEN {<<>>}
    ELSE Strings(k - 1) \cup {s \o p : s \in Strings(k - 1), p \in Pieces}

\* one-row tables whose two shelf columns hold the same raw string
InitNorm ==
    Start({[columns |-> RawColumns,
            view |-> FALSE,
            rows |-> <<Row(1, x, x, Num(100), Num(4))>>] :
               x \in {NaN} \cup {Str(s) : s \in Strings(MaxPieces)}})

\* ----------------------------------------------------------------- actions
\* GoodreadsAnalytics.__init__ on a DataFrame: copy, then clean
Construct ==
    /\ pc = "new"
    /\ df' = _clean_bookshelves(data_source)
    /\ pc' = "ready"
    /\ ret' = [op |-> "__init__"]
    /\ UNCHANGED data_source

ShelfOverlap ==
    /\ pc = "ready"
    /\ \E shelf1 \in ShelfArgs, shelf2 \in ShelfArgs :
           ret' = [op |-> "shelf_overlap_percentage",
                   shelf1 |-> shelf1, shelf2 |-> shelf2,
                   out |-> shelf_overlap_percentage(df, shelf1, shelf2)]
    /\ UNCHANGED <<data_source, df, pc>>

AveragePages ==
    /\ pc = "ready"
    /\ \E shelf \in ShelfArgs, only_read \in BOOLEAN :
           ret' = [op |-> "average_pages_on_shelf",
                   shelf |-> shelf, only_read |-> only_read,
                   out |-> average_pages_on_shelf(df, shelf, only_read)]
    /\ UNCHANGED <<data_source, df, pc>>

GetShelfBooks ==
    /\ pc = "ready"
    /\ \E shelf \in ShelfArgs :
           ret' = [op |-> "get_shelf_books", shelf |-> shelf,
                   out |-> get_shelf_books(df, shelf)]
    /\ UNCHANGED <<data_source, df, pc>>

TopRated ==
    /\ pc = "ready"
    /\ \E shelf \in ShelfArgs, n \in -1..MaxN :
           /\ \E out \in top_rated_books_on_shelf(df, shelf, n) :
                  ret' = [op |-> "top_rated_books_on_shelf",
                          shelf |-> shelf, n |-> n, out |-> out]
           /\ df' = after_setitem(df, shelf)
    /\ UNCHANGED <<data_source, pc>>

ReadingStats ==
    /\ pc = "ready"
    /\ ret' = [op |-> "reading_stats", out |-> reading_stats(df)]
    /\ UNCHANGED <<data_source, df, pc>>

Next ==
    \/ Construct
    \/ ShelfOverlap
    \/ AveragePages
    \/ GetShelfBooks
    \/ TopRated
    \/ ReadingStats

Spec == Init /\ [][Next]_vars

SpecPages == InitPages /\ [][Next]_vars

SpecRatings == InitRatings /\ [][Next]_vars

SpecNorm == InitNorm /\ [][Next]_vars

\* ------------------------------------------------------------------ claims
\* a row's derived shelf list holds the name, both in lower case
OnShelf(r, shelf) ==
    \E i \in 1..Len(r.bookshelves_list) : lower(r.bookshelves_list[i]) = lower(shelf)

\* the positions of the table's records on a shelf
Members(shelf) == {i \in 1..Len(df.rows) : OnShelf(df.rows[i], shelf)}

\* the table has its derived shelf lists
HasShelves == "bookshelves_list" \in df.columns

\* the sum of the page counts, and of the ratings, of the records S
RECURSIVE SumPages(_)
SumPages(S) ==
    IF S = {} THEN 0
    ELSE LET x == CHOOSE y \in S : TRUE
         IN  df.rows[x].Pages.v + SumPages(S \ {x})

RECURSIVE SumRatings(_)
SumRatings(S) ==
    IF S = {} THEN 0
    ELSE LET x == CHOOSE y \in S : TRUE
         IN  df.rows[x].Rating.v + SumRatings(S \ {x})

\* C1: on a table with derived shelf lists, shelf_overlap_percentage(shelf1,
\* shelf2) returns 0.0 when no record is on shelf1 (lower-cased exact match),
\* and otherwise 100 * (records of S1 also on shelf2) / |S1|.
C1_Overlap ==
    (ret.op = "shelf_overlap_percentage" /\ HasShelves) =>
        LET S1 == Members(ret.shelf1)
            both == {i \in S1 : OnShelf(df.rows[i], ret.shelf2)}
        IN  /\ ret.out.status = "ok"
            /\ IF S1 = {}
               THEN ret.out.value = <<0, 1>>
               ELSE /\ ret.out.value[2] > 0
                    /\ ret.out.value[1] * Cardinality(S1)
                           = 100 * Cardinality(both) * ret.out.value[2]

\* a call that found two records on shelf1, one of them on shelf2: 50.0
C1_Witness ==
    /\ ret.op = "shelf_overlap_percentage"
    /\ HasShelves
    /\ Cardinality(Members(ret.shelf1)) = 2
    /\ ret.shelf1 # ret.shelf2
    /\ ret.out.value = <<50, 1>>

\* the k-th smallest page count of the records S
KthSmallest(S, k) ==
    CHOOSE v \in {df.rows[i].Pages.v : i \in S} :
        /\ Cardinality({i \in S : df.rows[i].Pages.v < v}) < k
        /\ k <= Cardinality({i \in S : df.rows[i].Pages.v <= v})

\* C2: average_pages_on_shelf never fails; total_books is the size of the
\* selection (the records on the shelf, also on "read" when only_read), and
\* average, min, max, median and total_pages are those of the selected records
\* with a numeric page count, all 0 when there is none.
C2_PageStats ==
    (ret.op = "average_pages_on_shelf" /\ HasShelves) =>
        LET sel == {i \in Members(ret.shelf) :
                        ret.only_read => OnShelf(df.rows[i], READ)}
            paged == {i \in sel : df.rows[i].Pages.kind = "num"}
            c == Cardinality(paged)
            total == SumPages(paged)
            o == ret.out
        IN  /\ o.status = "ok"
            /\ o.total_books = Cardinality(sel)
            /\ o.total_pages = total
            /\ IF paged = {}
               THEN /\ o.average = <<0, 1>>
                    /\ o.min_pages = 0
                    /\ o.max_pages = 0
                    /\ o.median_pages = <<0, 1>>
               ELSE /\ o.average[1] * c = total * o.average[2]
                    /\ o.min_pages = KthSmallest(paged, 1)
                    /\ o.max_pages = KthSmallest(paged, c)
                    /\ o.median_pages[1] * 2 =
                           (KthSmallest(paged, (c + 1) \div 2)
                            + KthSmallest(paged, c \div 2 + 1)) * o.median_pages[2]

\* C3: once constructed, the table stays what construction made of the source:
\* the raw cells are the source's, the shelf lists are the cleaned raw shelves,
\* whatever queries were called; and get_shelf_books returns the records of
\* that table on the shelf, in table order.
C3_TableUnchanged ==
    pc = "ready" =>
        /\ df.columns = data_source.columns
               \cup {"bookshelves_list", "bookshelves_positions_list"}
        /\ Len(df.rows) = Len(data_source.rows)
        /\ \A i \in 1..Len(df.rows) :
               /\ df.rows[i].index = data_source.rows[i].index
               /\ df.rows[i].Bookshelves = data_source.rows[i].Bookshelves
               /\ df.rows[i].Pages = data_source.rows[i].Pages
               /\ df.rows[i].Rating = data_source.rows[i].Rating
               /\ df.rows[i].bookshelves_list
                      = clean_shelves(fillna(data_source.rows[i].Bookshelves))
        /\ ret.op = "get_shelf_books" =>
               /\ ret.out.status = "ok"
               /\ ret.out.frame.rows
                      = SelectSeq([i \in 1..Len(data_source.rows) |->
                                      [data_source.rows[i] EXCEPT
                                          !.bookshelves_list =
                                              clean_shelves(fillna(data_source.rows[i].Bookshelves)),
                                          !.bookshelves_positions_list =
                                              clean_positions(fillna(data_source.rows[i].Positions))]],
                                  LAMBDA r : OnShelf(r, ret.shelf))

\* top_rated_books_on_shelf has returned a record whose unparseable rating it
\* coerced to missing, and the table still holds the unparseable text
C3_Witness ==
    /\ ret.op = "top_rated_books_on_shelf"
    /\ ret.out.status = "ok"
    /\ \E k \in 1..Len(ret.out.rows) :
           /\ ret.out.rows[k].Rating = NaN
           /\ df.rows[ret.out.rows[k].index].Rating = Bad

Queries ==
    {"shelf_overlap_percentage", "average_pages_on_shelf", "get_shelf_books",
     "top_rated_books_on_shelf", "reading_stats"}

\* C4: on a table without the Bookshelves column every query returns what it
\* returns for a table of records with no shelves: overlap 0.0, zeroed page
\* statistics, no books, books_read = 0 and books_to_read = 0; none fails.
C4_AbsentColumnAsEmpty ==
    (pc = "ready" /\ "Bookshelves" \notin data_source.columns /\ ret.op \in Queries) =>
        /\ ret.out.status = "ok"
        /\ ret.op = "shelf_overlap_percentage" => ret.out.value = <<0, 1>>
        /\ ret.op = "average_pages_on_shelf" =>
               /\ ret.out.average = <<0, 1>>
               /\ ret.out.total_books = 0
               /\ ret.out.total_pages = 0
        /\ ret.op = "get_shelf_books" => ret.out.frame.rows = <<>>
        /\ ret.op = "top_rated_books_on_shelf" => ret.out.rows = <<>>
        /\ ret.op = "reading_stats" =>
               /\ ret.out.books_read = 0
               /\ ret.out.books_to_read = 0

\* a call of top_rated_books_on_shelf that returned rows
TopReturned == ret.op = "top_rated_books_on_shelf" /\ ret.out.status = "ok"

\* the parsed rating of the table's record i
Parsed(i) == IF df.rows[i].Rating.kind = "num" THEN df.rows[i].Rating ELSE NaN

\* every returned entry is a record of the table on the shelf, once
ReturnedFromShelf ==
    /\ \A k \in 1..Len(ret.out.rows) :
           /\ ret.out.rows[k].index \in Members(ret.shelf)
           /\ ret.out.rows[k].Rating = Parsed(ret.out.rows[k].index)
    /\ \A k, m \in 1..Len(ret.out.rows) :
           k # m => ret.out.rows[k].index # ret.out.rows[m].index

\* C5 as stated: for every integer n, at most n entries come back, each a
\* record of the table on the shelf.
C5_AtMostN ==
    TopReturned => Len(ret.out.rows) <= ret.n /\ ReturnedFromShelf

\* C5 as amended: for every n >= 0 at most n entries come back, and for every
\* integer n each entry is a record of the table on the shelf.
C5_AtMostNonNegativeN ==
    TopReturned =>
        /\ ret.n >= 0 => Len(ret.out.rows) <= ret.n
        /\ ReturnedFromShelf

\* the shelf holds more records than asked for, and n >= 1 of them came back
C5_Witness ==
    /\ TopReturned
    /\ ret.n >= 1
    /\ Cardinality(Members(ret.shelf)) > ret.n
    /\ Len(ret.out.rows) = ret.n

\* x sorts strictly before y in a descending sort with the missing last
Above(x, y) == x.kind = "num" /\ (y.kind = "num" => x.v > y.v)

\* neither sorts before the other: equal ratings, or both missing
Tie(x, y) == ~Above(x, y) /\ ~Above(y, x)

\* ratings descend, and no missing rating precedes a parseable one
Descending ==
    \A a, b \in 1..Len(ret.out.rows) :
        a < b => ~Above(ret.out.rows[b].Rating, ret.out.rows[a].Rating)

\* the number of entries asked for came back, as far as the shelf has them
CountIsN ==
    ret.n >= 0 => Len(ret.out.rows) = Min(ret.n, Cardinality(Members(ret.shelf)))

\* the records of the shelf that did not come back
Omitted ==
    Members(ret.shelf) \ {ret.out.rows[k].index : k \in 1..Len(ret.out.rows)}

\* C6 as stated: descending by rating, missing last, equal ratings in table
\* order, and the entries returned are the first n of the shelf in that order.
C6_StableOrder ==
    TopReturned =>
        /\ ReturnedFromShelf
        /\ Descending
        /\ \A a, b \in 1..Len(ret.out.rows) :
               (a < b /\ Tie(ret.out.rows[a].Rating, ret.out.rows[b].Rating))
                   => ret.out.rows[a].index < ret.out.rows[b].index
        /\ CountIsN
        /\ \A i \in Omitted, k \in 1..Len(ret.out.rows) :
               /\ ~Above(Parsed(i), ret.out.rows[k].Rating)
               /\ Tie(Parsed(i), ret.out.rows[k].Rating) => ret.out.rows[k].index < i

\* C6 as amended: descending by rating, missing last and the records with a
\* missing rating in table order; records of equal parseable rating come in
\* either order; the entries returned are the first n (n >= 0) of the shelf in
\* such an order: no record left out sorts before a returned one.
C6_DescendingOrder ==
    TopReturned =>
        /\ ReturnedFromShelf
        /\ Descending
        /\ \A a, b \in 1..Len(ret.out.rows) :
               (a < b /\ ret.out.rows[a].Rating = NaN /\ ret.out.rows[b].Rating = NaN)
                   => ret.out.rows[a].index < ret.out.rows[b].index
        /\ CountIsN
        /\ \A i \in Omitted, k \in 1..Len(ret.out.rows) :
               /\ ~Above(Parsed(i), ret.out.rows[k].Rating)
               /\ (Parsed(i) = NaN /\ ret.out.rows[k].Rating = NaN)
                      => ret.out.rows[k].index < i

\* the later record of the table came back first, for its higher rating
C6_Witness ==
    /\ TopReturned
    /\ Len(ret.out.rows) = 2
    /\ ret.out.rows[1].index > ret.out.rows[2].index
    /\ Above(ret.out.rows[1].Rating, ret.out.rows[2].Rating)

\* C7: reading_stats never fails; total_books is the number of records,
\* books_read the number of records on "read", and percent_read is
\* 100 * books_read / total_books, or 0 for a table with no rows.
C7_PercentRead ==
    (ret.op = "reading_stats" /\ HasShelves) =>
        /\ ret.out.status = "ok"
        /\ ret.out.total_books = Len(df.rows)
        /\ ret.out.books_read = Cardinality(Members(READ))
        /\ IF Len(df.rows) = 0
           THEN ret.out.percent_read = <<0, 1>>
           ELSE ret.out.percent_read[1] * Len(df.rows)
                    = 100 * Cardinality(Members(READ)) * ret.out.percent_read[2]

\* C8: reading_stats never fails; rating_distribution counts, for each rating
\* above 0 of a record on "read", the records on "read" with that rating, and
\* has no other key; avg_rating is the mean of those ratings, and is missing
\* when no record on "read" is rated.
C8_Ratings ==
    (ret.op = "reading_stats" /\ HasShelves) =>
        LET rated == {i \in Members(READ) :
                          df.rows[i].Rating.kind = "num" /\ df.rows[i].Rating.v > 0}
            total == SumRatings(rated)
            o == ret.out
        IN  /\ o.status = "ok"
            /\ DOMAIN o.rating_distribution = {df.rows[i].Rating.v : i \in rated}
            /\ \A v \in DOMAIN o.rating_distribution :
                   o.rating_distribution[v]
                       = Cardinality({i \in rated : df.rows[i].Rating.v = v})
            /\ IF rated = {}
               THEN o.avg_rating.nan
               ELSE /\ ~o.avg_rating.nan
                    /\ o.avg_rating.q[1] * Cardinality(rated)
                           = total * o.avg_rating.q[2]

\* a token with its trailing position marker removed: a space, "(#", one or
\* more digits and ")" at its end
StripTrailingMarker(tok) ==
    LET starts == {i \in 1..Len(tok) : MatchLen(tok, i) = Len(tok) - i + 1}
    IN  IF starts = {}
        THEN tok
        ELSE SubSeq(tok, 1, (CHOOSE i \in starts : TRUE) - 1)

\* C9: the shelves-with-positions list of a record is its raw string's
\* comma-separated tokens, each trimmed and then rid of a trailing position
\* marker only; a token that does not end in a marker is only trimmed.
C9_TrailingMarkerOnly ==
    (pc = "ready" /\ "bookshelves_positions_list" \in df.columns) =>
        \A i \in 1..Len(df.rows) :
            LET x == fillna(df.rows[i].Positions)
                toks == split(x)
            IN  x # <<>> =>
                    df.rows[i].bookshelves_positions_list
                        = [k \in 1..Len(toks) |-> StripTrailingMarker(strip(toks[k]))]

\* C10: no derived shelf list holds the empty string, whatever the raw string,
\* and get_shelf_books("") returns no records.
C10_NoEmptyShelfName ==
    (pc = "ready" /\ HasShelves) =>
        /\ \A i \in 1..Len(df.rows) :
               \A k \in 1..Len(df.rows[i].bookshelves_list) :
                   df.rows[i].bookshelves_list[k] # <<>>
        /\ (ret.op = "get_shelf_books" /\ ret.shelf = <<>>) =>
               /\ ret.out.status = "ok"
               /\ ret.out.frame.rows = <<>>

====
